---- MODULE Spec2Model ----
(***************************************************************************)
(* Retrieval core of zzongAI: DongyoVectorDB (src/src/rag/vector_db.py)    *)
(* and RetrieverAgent (src/src/rag/agents/retriever_agent.py).             *)
(*                                                                         *)
(* Text is a sequence of characters.  A Latin letter is the one-letter     *)
(* string; a Hangul syllable is one character, written as its              *)
(* romanisation ("dal" is U+B2EC, "no" "rae" is the word norae).           *)
(*                                                                         *)
(* Numbers are exact rationals kept as integers:                           *)
(*   a distance  is stored in units of 1/DistUnit,                         *)
(*   a score     is stored in units of 1/(10*ScoreUnit).                   *)
(***************************************************************************)
EXTENDS Integers, Sequences, FiniteSets, TLC

VARIABLES
    metadata,          \* self.metadata: the list of song records
    ntotal,            \* self.index.ntotal: vectors held by the FAISS index
    song_texts,        \* self.song_texts
    keyword_index,     \* self.keyword_index: token -> list of song indices
    pc,                \* position of the retrieve call
    search_query, top_k, categories, use_hybrid,   \* arguments of retrieve
    faiss_order,       \* the index's nearest-first answer for the query embedding
    vector_results, keywords, keyword_results,
    combined_results, filtered_results, final_results,
    raised,            \* the exception that ended the call, or "none"
    calls,             \* the locals of the retrieve calls of concurrent workers
    artifact,          \* the corpus snapshot on disk (embeddings file and index)
    loads,             \* how many times a DongyoVectorDB has been constructed
    disk,              \* which of the two data files exist; the index file's size
    columns_db,        \* a second store, loaded from a dict of parallel columns
    song_req,          \* the /generate-song handler: its position and locals
    log_rows,          \* the rows of real_melody_logs.csv, oldest first
    event_id_current   \* EventIdGenerator._current

db_vars   == <<metadata, ntotal, song_texts, keyword_index>>
call_vars == <<pc, search_query, top_k, categories, use_hybrid, faiss_order,
               vector_results, keywords, keyword_results,
               combined_results, filtered_results, final_results, raised>>
env_vars  == <<calls, artifact, loads, disk, columns_db, song_req, log_rows,
               event_id_current>>
vars      == <<metadata, ntotal, song_texts, keyword_index,
               pc, search_query, top_k, categories, use_hybrid, faiss_order,
               vector_results, keywords, keyword_results,
               combined_results, filtered_results, final_results, raised,
               calls, artifact, loads, disk, columns_db, song_req, log_rows,
               event_id_current>>

-----------------------------------------------------------------------------
(* Bounds of the model.                                                    *)

MaxTopK == 2
MaxDist == 2

-----------------------------------------------------------------------------
(* Generic helpers.                                                        *)

Max(a, b) == IF a >= b THEN a ELSE b
Min(a, b) == IF a <= b THEN a ELSE b

RECURSIVE Gcd(_, _)
Gcd(a, b) == IF b = 0 THEN a ELSE Gcd(b, a % b)

Lcm(a, b) == (a * b) \div Gcd(a, b)

RECURSIVE LcmUpTo(_)
LcmUpTo(n) == IF n <= 1 THEN 1 ELSE Lcm(n, LcmUpTo(n - 1))

Take(s, n) == SubSeq(s, 1, Min(n, Len(s)))

RECURSIVE Concat(_)
Concat(ss) == IF ss = <<>> THEN <<>> ELSE Head(ss) \o Concat(Tail(ss))

(* Python sorted(s, key=...): stable, ascending in the key. `key` is the   *)
(* sequence of the elements' keys.                                         *)
SortedByKey(s, key) ==
    LET n       == Len(s)
        rank(i) == 1 + Cardinality({j \in 1..n :
                        key[j] < key[i] \/ (key[j] = key[i] /\ j < i)})
    IN  [r \in 1..n |-> s[CHOOSE i \in 1..n : rank(i) = r]]

(* Python sorted(s, key=..., reverse=True): descending in the key, equal   *)
(* elements keep their original order.                                     *)
SortedByKeyReverse(s, key) ==
    SortedByKey(s, [i \in 1..Len(s) |-> 0 - key[i]])

-----------------------------------------------------------------------------
(* Text: str.lower(), re.findall(r'\b\w+\b', ...), the "in" of two strings.*)

NonWordChars == {" "}

UpperToLower == ("A" :> "a") @@ ("B" :> "b") @@ ("T" :> "t") @@ ("N" :> "n")

LowerChar(c) == IF c \in DOMAIN UpperToLower THEN UpperToLower[c] ELSE c

Lower(s) == [i \in 1..Len(s) |-> LowerChar(s[i])]

IsWordChar(c) == c \notin NonWordChars

(* str.strip() of a string is empty iff it holds only whitespace.          *)
IsBlank(s) == \A i \in 1..Len(s) : s[i] = " "

(* re.findall(r'\b\w+\b', text): the maximal runs of word characters, in   *)
(* order of occurrence.                                                    *)
RECURSIVE FindAllFrom(_, _, _)
FindAllFrom(text, i, run) ==
    IF i > Len(text)
    THEN IF run = <<>> THEN <<>> ELSE <<run>>
    ELSE IF IsWordChar(text[i])
         THEN FindAllFrom(text, i + 1, Append(run, text[i]))
         ELSE (IF run = <<>> THEN <<>> ELSE <<run>>) \o FindAllFrom(text, i + 1, <<>>)

FindAllWords(text) == FindAllFrom(text, 1, <<>>)

(* Python's `pat in text` for strings.                                     *)
Contains(text, pat) ==
    \E i \in 0..(Len(text) - Len(pat)) :
        \A j \in 1..Len(pat) : text[i + j] = pat[j]

InSeq(x, s) == \E i \in 1..Len(s) : s[i] = x

-----------------------------------------------------------------------------
(* A song record is a dict; a key it lacks reads as None (meta.get).       *)

NoneText == <<"N", "o", "n", "e">>

(* f"{meta.get(k)}": the value, or the text None when the key is absent.   *)
Fmt(meta, k) == IF k \in DOMAIN meta THEN meta[k] ELSE NoneText

(* str(v) if v else "": the value, or the empty string.                    *)
StrOrEmpty(meta, k) == IF k \in DOMAIN meta THEN meta[k] ELSE <<>>

(* self.metadata[idx] with Python's indexing: 0-based, a negative idx      *)
(* counts from the end.                                                    *)
MetaAt(idx) == IF idx >= 0 THEN metadata[idx + 1]
                           ELSE metadata[Len(metadata) + idx + 1]

(* _build_keyword_index, first loop: the searchable text of every song.    *)
SongTextOf(meta) ==
    Lower(Fmt(meta, "title") \o <<" ">> \o Fmt(meta, "feature_summary")
          \o <<" ">> \o Fmt(meta, "lyrics"))

BuildSongTexts(md) == [i \in 1..Len(md) |-> SongTextOf(md[i])]

(* Variant: the song is appended without looking whether it is there.    *)
IndexWord_append(idx, word, i) ==
    IF Len(word) >= 2
    THEN LET cur == IF word \in DOMAIN idx THEN idx[word] ELSE <<>>
         IN  (word :> Append(cur, i)) @@ idx
    ELSE idx

(* _build_keyword_index, second loop: the inverted index.  Song indices    *)
(* are 0-based; a posting list is in order of first insertion.             *)
IndexWord(idx, word, i) ==
    IF Len(word) >= 2
    THEN LET cur == IF word \in DOMAIN idx THEN idx[word] ELSE <<>>
         IN  IF InSeq(i, cur) THEN (word :> cur) @@ idx
                              ELSE (word :> Append(cur, i)) @@ idx
    ELSE idx

RECURSIVE IndexWords(_, _, _)
IndexWords(idx, words, i) ==
    IF words = <<>> THEN idx
    ELSE IndexWords(IndexWord(idx, Head(words), i), Tail(words), i)

RECURSIVE IndexTexts(_, _, _)
IndexTexts(idx, texts, n) ==
    IF n > Len(texts) THEN idx
    ELSE IndexTexts(IndexWords(idx, FindAllWords(texts[n]), n - 1), texts, n + 1)

BuildKeywordIndex(texts) == IndexTexts(<<>>, texts, 1)

-----------------------------------------------------------------------------
(* The corpora, queries and category mappings the model draws from.        *)

CorpusEmpty == <<>>

(* One record without the feature-summary key; Latin text with capitals.   *)
CorpusLatin ==
    << [title |-> <<"A", "b">>, lyrics |-> <<"a", "b", " ", "b", "a">>] >>

(* The three-song corpus of the specification's scenarios:                 *)
(* dal norae / dalbit arae, byeol norae / byeoli bitna, hae norae / haega  *)
(* tteotda, each with an empty feature summary.                            *)
CorpusScenario ==
    << [title |-> <<"dal", " ", "no", "rae">>, feature_summary |-> <<>>,
        lyrics |-> <<"dal", "bit", " ", "ah", "rae">>],
       [title |-> <<"byeol", " ", "no", "rae">>, feature_summary |-> <<>>,
        lyrics |-> <<"byeol", "yi", " ", "bit", "na">>],
       [title |-> <<"hae", " ", "no", "rae">>, feature_summary |-> <<>>,
        lyrics |-> <<"hae", "ga", " ", "tteot", "da">>] >>

Corpora == {CorpusEmpty, CorpusLatin, CorpusScenario}

Queries ==
    { <<"dal">>,                                   \* one 1-character word
      <<"no", "rae">>,                             \* in every scenario song
      <<"dal", "bit", " ", "no", "rae">>,          \* two keywords
      <<"hae", "ga", " ", "byeol", "yi">>,         \* songs 2 and 1, one each
      <<"t", "h", "e", " ", "A", "b">>,            \* a stop word and a capital
      <<"no", "rae", " ", "no", "rae">>,           \* the same word twice
      <<"t", "h", "e", " ", "o", "f">>,            \* stop words only
      <<>> }                                       \* the empty query

(* A categories dict is modelled by its values in iteration order.         *)
CategorySets ==
    { <<>>,                                        \* None or {}
      << <<>> >>,                                  \* every value empty
      << <<"gyeo", "ul">> >>,                      \* matches no song
      << <<"dal">> >>,                             \* matches scenario song 0
      << <<" ">>, <<"byeol">> >>,                  \* a blank value and song 1
      << <<"hae">>, <<"A", "B">> >> }              \* song 2, or the Latin song

-----------------------------------------------------------------------------
(* RetrieverAgent._extract_keywords (retriever_agent.py:89-104).           *)

StopWords ==
    { <<"t", "h", "e">>, <<"i", "s">>, <<"a", "r", "e">>, <<"w", "a", "s">>,
      <<"w", "e", "r", "e">>, <<"a">>, <<"a", "n">>, <<"a", "n", "d">>,
      <<"o", "r">>, <<"b", "u", "t">>, <<"i", "n">>, <<"o", "n">>,
      <<"a", "t">>, <<"t", "o">>, <<"f", "o", "r">>, <<"o", "f">>,
      <<"w", "i", "t", "h">>, <<"b", "y">>,
      <<"yi">>, <<"ga">>, <<"eul">>, <<"reul">>, <<"e">>, <<"ui">>,
      <<"wa">>, <<"gwa">>, <<"do">>, <<"ro">>, <<"eu", "ro">> }

MaxKeywords == 10

(* Variant: a token of one character is a keyword too.                    *)
IsKeyword_any_length(w) == w \notin StopWords

IsKeyword(w) == Len(w) >= 2 /\ w \notin StopWords

(* Variant: every qualifying token, without the cut after the tenth.      *)
ExtractKeywords_uncapped(text) ==
    SelectSeq(FindAllWords(Lower(text)), IsKeyword)

ExtractKeywords(text) ==
    Take(SelectSeq(FindAllWords(Lower(text)), IsKeyword), MaxKeywords)

-----------------------------------------------------------------------------
(* Exact arithmetic.                                                       *)

(* The largest keyword_score a query of the model can produce.             *)
KwScoreMax ==
    LET lens == {Len(ExtractKeywords(q)) : q \in Queries}
    IN  CHOOSE m \in lens : \A l \in lens : l <= m

(* Distances are stored in units of 1/DistUnit, so that the keyword        *)
(* search's 1.0 / (score + 1) is an integer.                               *)
DistUnit == LcmUpTo(KwScoreMax + 1)

(* IndexFlat pads a short answer with label -1 and distance FLT_MAX        *)
(* (3.4e38).  The model keeps what matters of that number: it is larger    *)
(* than every real distance, by so much that all pads of one answer        *)
(* together score less than one real song.                                 *)
PadDist == 3 * MaxTopK * (MaxDist + 1) - 1

(* Scores are stored in units of 1/(10*ScoreUnit).                         *)
ScoreUnit == Lcm(LcmUpTo(MaxDist + 1), Lcm(PadDist + 1, LcmUpTo(KwScoreMax + 1)))

VectorWeight  == 7         \* 0.7, in tenths
KeywordWeight == 3         \* 0.3, in tenths

(* 1.0 / (distance + 1) * 0.7 *)
VectorScore(distance) ==
    (VectorWeight * ScoreUnit * DistUnit) \div (distance + DistUnit)

(* Mutant: the keyword term takes the vector weight.                      *)
KeywordScore_vector_weight(keyword_score) ==
    (VectorWeight * ScoreUnit * keyword_score) \div (keyword_score + 1)

(* keyword_score / (keyword_score + 1) * 0.3 *)
KeywordScore(keyword_score) ==
    (KeywordWeight * ScoreUnit * keyword_score) \div (keyword_score + 1)

-----------------------------------------------------------------------------
(* The FAISS index (faiss.Index.search), as far as the code sees it.       *)

(* Every answer the index can give for some query embedding: the ntotal    *)
(* stored vectors nearest first.  The order of two vectors at the same     *)
(* distance is the library's choice.                                       *)
FaissOrders(n) ==
    LET ids   == 0..(n - 1)
        perms == {p \in [1..n -> ids] : \A i, j \in 1..n : p[i] = p[j] => i = j}
        dists == [ids -> 0..MaxDist]
        all   == {[i \in 1..n |-> [idx |-> p[i], dist |-> d[p[i]] * DistUnit]] :
                      p \in perms, d \in dists}
    IN  {o \in all : \A i \in 1..(n - 1) : o[i].dist <= o[i + 1].dist}

(* index.search(query, k): exactly k labels and distances; missing ones    *)
(* are label -1.                                                           *)
IndexSearch(order, k) ==
    [i \in 1..k |-> IF i <= Len(order) THEN order[i]
                    ELSE [idx |-> 0 - 1, dist |-> PadDist * DistUnit]]

-----------------------------------------------------------------------------
(* DongyoVectorDB.search_similar (vector_db.py:99-176).                    *)

SimilarResult(hit) ==
    LET meta == MetaAt(hit.idx)
    IN  [index           |-> hit.idx,
         distance        |-> hit.dist,
         title           |-> StrOrEmpty(meta, "title"),
         feature_summary |-> StrOrEmpty(meta, "feature_summary"),
         lyrics          |-> StrOrEmpty(meta, "lyrics")]

(* `if idx_int < len(self.metadata)` ... `else: continue` *)
InMetadata(hit) == hit.idx < Len(metadata)

(* self.metadata[idx_int] raises IndexError outside -len .. len-1.         *)
IndexInRange(idx) == 0 - Len(metadata) <= idx /\ idx < Len(metadata)

search_similar_raises(order, k) ==
    \E i \in 1..k :
        /\ InMetadata(IndexSearch(order, k)[i])
        /\ ~IndexInRange(IndexSearch(order, k)[i].idx)

search_similar(order, k) ==
    LET kept == SelectSeq(IndexSearch(order, k), InMetadata)
    IN  [i \in 1..Len(kept) |-> SimilarResult(kept[i])]

-----------------------------------------------------------------------------
(* DongyoVectorDB.search_by_keywords (vector_db.py:178-243).               *)

(* Variant: a song is scored once, however many keywords it matches.     *)
AddScore_presence(scores, song_idx) ==
    IF \E i \in 1..Len(scores) : scores[i].idx = song_idx
    THEN scores
    ELSE Append(scores, [idx |-> song_idx, n |-> 1])

(* scores[song_idx] += 1 on a Counter, which keeps insertion order.        *)
AddScore(scores, song_idx) ==
    IF \E i \in 1..Len(scores) : scores[i].idx = song_idx
    THEN [i \in 1..Len(scores) |->
             IF scores[i].idx = song_idx
             THEN [scores[i] EXCEPT !.n = @ + 1] ELSE scores[i]]
    ELSE Append(scores, [idx |-> song_idx, n |-> 1])

RECURSIVE AddPostings(_, _)
AddPostings(scores, posting) ==
    IF posting = <<>> THEN scores
    ELSE AddPostings(AddScore(scores, Head(posting)), Tail(posting))

RECURSIVE CountScores(_, _)
CountScores(scores, kws) ==
    IF kws = <<>> THEN scores
    ELSE LET keyword == Lower(Head(kws))
         IN  CountScores(IF keyword \in DOMAIN keyword_index
                         THEN AddPostings(scores, keyword_index[keyword])
                         ELSE scores,
                         Tail(kws))

(* Variant: the n smallest counts.                                         *)
MostCommon_least(scores, n) ==
    Take(SortedByKey(scores, [i \in 1..Len(scores) |-> scores[i].n]), n)

(* Counter.most_common(n): the n largest counts, equal counts in insertion *)
(* order.                                                                  *)
MostCommon(scores, n) ==
    Take(SortedByKeyReverse(scores, [i \in 1..Len(scores) |-> scores[i].n]), n)

KeywordResult(entry) ==
    LET meta == MetaAt(entry.idx)
    IN  [index           |-> entry.idx,
         distance        |-> DistUnit \div (entry.n + 1),
         keyword_score   |-> entry.n,
         title           |-> StrOrEmpty(meta, "title"),
         feature_summary |-> StrOrEmpty(meta, "feature_summary"),
         lyrics          |-> StrOrEmpty(meta, "lyrics")]

search_by_keywords(kws, k) ==
    IF kws = <<>> THEN <<>>
    ELSE LET scores      == CountScores(<<>>, kws)
             top_indices == MostCommon(scores, k * 2)
             kept        == SelectSeq(Take(top_indices, k), InMetadata)
         IN  [i \in 1..Len(kept) |-> KeywordResult(kept[i])]

-----------------------------------------------------------------------------
(* DongyoVectorDB.filter_by_categories (vector_db.py:245-290).             *)

(* `if cat_value and cat_value.strip()` *)
IsCategoryKeyword(cat_value) == cat_value # <<>> /\ ~IsBlank(cat_value)

CategoryKeywords(cats) ==
    LET kept == SelectSeq(cats, IsCategoryKeyword)
    IN  [i \in 1..Len(kept) |-> Lower(kept[i])]

SearchableText(result) ==
    Lower(result.title \o <<" ">> \o result.feature_summary
          \o <<" ">> \o result.lyrics)

(* Mutant: a candidate must match every category keyword (AND).           *)
Matched_all(result, category_keywords) ==
    \A i \in 1..Len(category_keywords) :
        Contains(SearchableText(result), category_keywords[i])

(* The inner loop: `matched` is set by the first keyword found in the text.*)
Matched(result, category_keywords) ==
    \E i \in 1..Len(category_keywords) :
        Contains(SearchableText(result), category_keywords[i])

(* Mutant: the filter without its fallback to the unfiltered list.         *)
filter_by_categories_strict(results, cats) ==
    IF cats = <<>> \/ (\A i \in 1..Len(cats) : cats[i] = <<>>)
    THEN results
    ELSE LET category_keywords == CategoryKeywords(cats)
             matched(result) == Matched(result, category_keywords)
         IN  IF category_keywords = <<>> THEN results
             ELSE SelectSeq(results, matched)

(* Mutant: the filter without its early returns and fallback.              *)
filter_by_categories_unguarded(results, cats) ==
    LET category_keywords == CategoryKeywords(cats)
        matched(result) == Matched(result, category_keywords)
    IN  SelectSeq(results, matched)

filter_by_categories(results, cats) ==
    IF cats = <<>> \/ (\A i \in 1..Len(cats) : cats[i] = <<>>)
    THEN results
    ELSE LET category_keywords == CategoryKeywords(cats)
             matched(result) == Matched(result, category_keywords)
             filtered == SelectSeq(results, matched)
         IN  IF category_keywords = <<>> THEN results
             ELSE IF Len(filtered) >= 1 THEN filtered ELSE results

-----------------------------------------------------------------------------
(* RetrieverAgent._combine_results (retriever_agent.py:106-153).           *)

HasIndex(combined, idx) == \E i \in 1..Len(combined) : combined[i].index = idx

(* Mutant: the score is assigned, not accumulated.                         *)
AddContribution_assign(combined, result, score) ==
    LET idx  == result.index
        base == IF HasIndex(combined, idx) THEN combined
                ELSE Append(combined, result @@ [combined_score |-> 0])
    IN  [i \in 1..Len(base) |->
            IF base[i].index = idx
            THEN [base[i] EXCEPT !.combined_score = score]
            ELSE base[i]]

(* combined[idx]['combined_score'] += score, after creating the entry from *)
(* a copy of `result` when idx is new.  The dict keeps insertion order.    *)
AddContribution(combined, result, score) ==
    LET idx  == result.index
        base == IF HasIndex(combined, idx) THEN combined
                ELSE Append(combined, result @@ [combined_score |-> 0])
    IN  [i \in 1..Len(base) |->
            IF base[i].index = idx
            THEN [base[i] EXCEPT !.combined_score = @ + score]
            ELSE base[i]]

RECURSIVE AddVectorResults(_, _)
AddVectorResults(combined, results) ==
    IF results = <<>> THEN combined
    ELSE AddVectorResults(
             AddContribution(combined, Head(results),
                             VectorScore(Head(results).distance)),
             Tail(results))

RECURSIVE AddKeywordResults(_, _)
AddKeywordResults(combined, results) ==
    IF results = <<>> THEN combined
    ELSE AddKeywordResults(
             AddContribution(combined, Head(results),
                             KeywordScore(Head(results).keyword_score)),
             Tail(results))

CombinedDict(vec, kw) == AddKeywordResults(AddVectorResults(<<>>, vec), kw)

(* Mutant: reverse=True forgotten.                                         *)
SortByCombinedScore_ascending(combined) ==
    SortedByKey(combined,
        [i \in 1..Len(combined) |-> combined[i].combined_score])

SortByCombinedScore(combined) ==
    SortedByKeyReverse(combined,
        [i \in 1..Len(combined) |-> combined[i].combined_score])

combine_results(vec, kw, k) ==
    Take(SortByCombinedScore(CombinedDict(vec, kw)), k)

-----------------------------------------------------------------------------
(* RetrieverAgent.retrieve (retriever_agent.py:33-87), step by step.       *)

(* Mutant: the slice is one short.                                         *)
FinalSelect_short(results, k) ==
    Take(SortedByKey(results, [i \in 1..Len(results) |-> results[i].distance]),
         k - 1)

(* sorted(filtered_results, key=lambda x: x.get('distance', inf))[:top_k]  *)
FinalSelect(results, k) ==
    Take(SortedByKey(results, [i \in 1..Len(results) |-> results[i].distance]), k)

VectorWidth(k, hybrid) == IF hybrid THEN k * 3 ELSE k
KeywordWidth(k) == k * 2
FusionWidth(k)  == k * 2

(* The locals of one retrieve call, as a record (for concurrent workers).  *)
Workers == {1, 2}

IdleCall ==
    [pc |-> "idle", search_query |-> <<>>, top_k |-> 0, categories |-> <<>>,
     use_hybrid |-> FALSE, faiss_order |-> <<>>, vector_results |-> <<>>,
     keywords |-> <<>>, keyword_results |-> <<>>, combined_results |-> <<>>,
     filtered_results |-> <<>>, final_results |-> <<>>, raised |-> "none"]

(* Both data files exist and the index file holds n vectors.               *)
DiskWith(n) ==
    [embeddings_exists |-> TRUE, index_exists |-> TRUE, index_ntotal |-> n]

(* No store of the column shape has been loaded.                           *)
NoColumnsDb ==
    [metadata |-> [titles |-> <<>>, lyrics |-> <<>>], song_texts |-> <<>>,
     keyword_index |-> <<>>, vector_results |-> <<>>, keyword_results |-> <<>>,
     filtered_results |-> <<>>]

(* No /generate-song request is being served.                              *)
IdleSong == [pc |-> "idle", request |-> 0, outcome |-> "none"]

(* The variables of the server's other handlers, at rest.                  *)
EnvAtRest ==
    /\ calls = [p \in Workers |-> IdleCall]
    /\ columns_db = NoColumnsDb
    /\ song_req = IdleSong
    /\ log_rows = <<>>
    /\ event_id_current = 0

(* retrieve does not check top_k: a caller can pass a top_k below 1.      *)
MinTopK == 1 - 1

(* The state after RetrieverAgent.__init__: the DongyoVectorDB is built.   *)
Init ==
    /\ metadata \in Corpora
    /\ ntotal = Len(metadata)
    /\ song_texts = BuildSongTexts(metadata)
    /\ keyword_index = BuildKeywordIndex(BuildSongTexts(metadata))
    /\ pc = "idle"
    /\ search_query = <<>>
    /\ top_k = 0
    /\ categories = <<>>
    /\ use_hybrid = FALSE
    /\ faiss_order = <<>>
    /\ vector_results = <<>>
    /\ keywords = <<>>
    /\ keyword_results = <<>>
    /\ combined_results = <<>>
    /\ filtered_results = <<>>
    /\ final_results = <<>>
    /\ raised = "none"
    /\ artifact = metadata
    /\ loads = 1
    /\ disk = DiskWith(Len(metadata))
    /\ EnvAtRest

(* A caller invokes retrieve(search_query, top_k, categories, use_hybrid). *)
Call ==
    /\ pc = "idle"
    /\ \E q \in Queries, k \in MinTopK..MaxTopK, c \in CategorySets, h \in BOOLEAN :
          /\ search_query' = q
          /\ top_k' = k
          /\ categories' = c
          /\ use_hybrid' = h
    /\ pc' = "embed"
    /\ UNCHANGED <<db_vars, env_vars, faiss_order, vector_results, keywords,
                   keyword_results, combined_results, filtered_results,
                   final_results, raised>>

(* client.embeddings.create: the embedding fixes the index's answer.       *)
Embed ==
    /\ pc = "embed"
    /\ faiss_order' \in FaissOrders(ntotal)
    /\ pc' = "vector"
    /\ UNCHANGED <<db_vars, env_vars, search_query, top_k, categories, use_hybrid,
                   vector_results, keywords, keyword_results,
                   combined_results, filtered_results, final_results, raised>>

(* Variant: the failure of the embedding call is swallowed and the search *)
(* goes on with whatever the index answers.                                *)
EmbedFails_swallowed ==
    /\ pc = "embed"
    /\ faiss_order' \in FaissOrders(ntotal)
    /\ raised' = "APIError"
    /\ pc' = "vector"
    /\ UNCHANGED <<db_vars, env_vars, search_query, top_k, categories, use_hybrid,
                   vector_results, keywords, keyword_results,
                   combined_results, filtered_results, final_results>>

(* client.embeddings.create raises (network, quota, bad key): retrieve has *)
(* no try, so the exception leaves retrieve at once.                       *)
EmbedFails ==
    /\ pc = "embed"
    /\ raised' = "APIError"
    /\ pc' = "done"
    /\ UNCHANGED <<db_vars, env_vars, search_query, top_k, categories, use_hybrid,
                   faiss_order, vector_results, keywords, keyword_results,
                   combined_results, filtered_results, final_results>>

VectorSearch ==
    /\ pc = "vector"
    /\ VectorWidth(top_k, use_hybrid) >= 0
    /\ ~search_similar_raises(faiss_order, VectorWidth(top_k, use_hybrid))
    /\ vector_results' = search_similar(faiss_order, VectorWidth(top_k, use_hybrid))
    /\ pc' = "hybrid"
    /\ UNCHANGED <<db_vars, env_vars, search_query, top_k, categories, use_hybrid,
                   faiss_order, keywords, keyword_results,
                   combined_results, filtered_results, final_results, raised>>

(* index.search(query, k) with k < 1: the faiss wrapper asserts k > 0      *)
(* (older builds answer k = 0 with an empty result: VectorSearch above; a  *)
(* negative k fails in every build).  retrieve catches nothing.            *)
VectorSearchRejects ==
    /\ pc = "vector"
    /\ VectorWidth(top_k, use_hybrid) < 1
    /\ raised' = "AssertionError"
    /\ pc' = "done"
    /\ UNCHANGED <<db_vars, env_vars, search_query, top_k, categories, use_hybrid,
                   faiss_order, vector_results, keywords, keyword_results,
                   combined_results, filtered_results, final_results>>

(* search_similar raises; retrieve catches nothing, so the call ends.      *)
VectorSearchRaises ==
    /\ pc = "vector"
    /\ VectorWidth(top_k, use_hybrid) >= 1
    /\ search_similar_raises(faiss_order, VectorWidth(top_k, use_hybrid))
    /\ raised' = "IndexError"
    /\ pc' = "done"
    /\ UNCHANGED <<db_vars, env_vars, search_query, top_k, categories, use_hybrid,
                   faiss_order, vector_results, keywords, keyword_results,
                   combined_results, filtered_results, final_results>>

(* use_hybrid and keywords extracted: keyword search and fusion.           *)
(* Variant: fusion annotates the vector candidates themselves (no copy).   *)
HybridFuse_in_place ==
    /\ pc = "hybrid"
    /\ use_hybrid
    /\ ExtractKeywords(search_query) # <<>>
    /\ keywords' = ExtractKeywords(search_query)
    /\ keyword_results' = search_by_keywords(keywords', KeywordWidth(top_k))
    /\ combined_results' =
           combine_results(vector_results, keyword_results', FusionWidth(top_k))
    /\ vector_results' =
           [i \in 1..Len(vector_results) |->
               [combined_score |-> 0] @@ vector_results[i]]
    /\ pc' = "filter"
    /\ UNCHANGED <<db_vars, env_vars, search_query, top_k, categories, use_hybrid,
                   faiss_order, filtered_results, final_results, raised>>

HybridFuse ==
    /\ pc = "hybrid"
    /\ use_hybrid
    /\ ExtractKeywords(search_query) # <<>>
    /\ keywords' = ExtractKeywords(search_query)
    /\ keyword_results' = search_by_keywords(keywords', KeywordWidth(top_k))
    /\ combined_results' =
           combine_results(vector_results, keyword_results', FusionWidth(top_k))
    /\ pc' = "filter"
    /\ UNCHANGED <<db_vars, env_vars, search_query, top_k, categories, use_hybrid,
                   faiss_order, vector_results, filtered_results, final_results, raised>>

(* use_hybrid but no keyword survives extraction.                          *)
(* Variant: fusion runs although there is no keyword.                     *)
HybridNoKeywords_fused ==
    /\ pc = "hybrid"
    /\ use_hybrid
    /\ ExtractKeywords(search_query) = <<>>
    /\ keywords' = <<>>
    /\ combined_results' = combine_results(vector_results, <<>>, FusionWidth(top_k))
    /\ pc' = "filter"
    /\ UNCHANGED <<db_vars, env_vars, search_query, top_k, categories, use_hybrid,
                   faiss_order, vector_results, keyword_results,
                   filtered_results, final_results, raised>>

HybridNoKeywords ==
    /\ pc = "hybrid"
    /\ use_hybrid
    /\ ExtractKeywords(search_query) = <<>>
    /\ keywords' = <<>>
    /\ combined_results' = vector_results
    /\ pc' = "filter"
    /\ UNCHANGED <<db_vars, env_vars, search_query, top_k, categories, use_hybrid,
                   faiss_order, vector_results, keyword_results,
                   filtered_results, final_results, raised>>

(* Variant: the keyword search and the fusion run whatever use_hybrid is.  *)
VectorOnly_fused ==
    /\ pc = "hybrid"
    /\ ~use_hybrid
    /\ keywords' = ExtractKeywords(search_query)
    /\ keyword_results' = search_by_keywords(keywords', KeywordWidth(top_k))
    /\ combined_results' =
           combine_results(vector_results, keyword_results', FusionWidth(top_k))
    /\ pc' = "filter"
    /\ UNCHANGED <<db_vars, env_vars, search_query, top_k, categories, use_hybrid,
                   faiss_order, vector_results, filtered_results, final_results, raised>>

(* use_hybrid is false: combined_results = vector_results.                 *)
VectorOnly ==
    /\ pc = "hybrid"
    /\ ~use_hybrid
    /\ combined_results' = vector_results
    /\ pc' = "filter"
    /\ UNCHANGED <<db_vars, env_vars, search_query, top_k, categories, use_hybrid,
                   faiss_order, vector_results, keywords, keyword_results,
                   filtered_results, final_results, raised>>

(* `if categories:` is false for None and for {}.                          *)
Filter ==
    /\ pc = "filter"
    /\ filtered_results' =
           IF categories # <<>>
           THEN filter_by_categories(combined_results, categories)
           ELSE combined_results
    /\ pc' = "select"
    /\ UNCHANGED <<db_vars, env_vars, search_query, top_k, categories, use_hybrid,
                   faiss_order, vector_results, keywords, keyword_results,
                   combined_results, final_results, raised>>

Select ==
    /\ pc = "select"
    /\ final_results' = FinalSelect(filtered_results, top_k)
    /\ pc' = "done"
    /\ UNCHANGED <<db_vars, env_vars, search_query, top_k, categories, use_hybrid,
                   faiss_order, vector_results, keywords, keyword_results,
                   combined_results, filtered_results, raised>>

(* retrieve returns final_results (or the exception propagates); the      *)
(* call's locals go out of scope.                                          *)
Return ==
    /\ pc = "done"
    /\ pc' = "idle"
    /\ search_query' = <<>>
    /\ top_k' = 0
    /\ categories' = <<>>
    /\ use_hybrid' = FALSE
    /\ faiss_order' = <<>>
    /\ vector_results' = <<>>
    /\ keywords' = <<>>
    /\ keyword_results' = <<>>
    /\ combined_results' = <<>>
    /\ filtered_results' = <<>>
    /\ final_results' = <<>>
    /\ raised' = "none"
    /\ UNCHANGED <<db_vars, env_vars>>

Next ==
    \/ Call
    \/ Embed
    \/ EmbedFails
    \/ VectorSearch
    \/ VectorSearchRejects
    \/ VectorSearchRaises
    \/ HybridFuse
    \/ HybridNoKeywords
    \/ VectorOnly
    \/ Filter
    \/ Select
    \/ Return

Spec == Init /\ [][Next]_vars

-----------------------------------------------------------------------------
(* Vocabulary of the properties.                                           *)

Returned == pc = "done" /\ raised = "none"

(* The call is past fusion: combined_results came from _combine_results.   *)
Fused == pc \in {"filter", "select", "done"} /\ raised = "none"
         /\ use_hybrid /\ keywords # <<>>

(* The call is past the category filter.                                   *)
Filtered == pc \in {"select", "done"} /\ raised = "none"

Indices(results) == {results[i].index : i \in 1..Len(results)}

Positions(results, idx) == {i \in 1..Len(results) : results[i].index = idx}

FirstPosition(results, idx) ==
    CHOOSE i \in Positions(results, idx) : \A j \in Positions(results, idx) : i <= j

(* One tenth of a score of 1.0.                                            *)
Tenth == ScoreUnit

-----------------------------------------------------------------------------
(* C1: retrieve returns at most top_k entries, each with an index of the   *)
(* corpus: 0 <= index < number of songs.                                   *)
C1_RetrieveIndexInBounds ==
    Returned =>
        /\ Len(final_results) <= top_k
        /\ \A i \in 1..Len(final_results) :
               0 <= final_results[i].index
               /\ final_results[i].index < Len(metadata)

-----------------------------------------------------------------------------
(* C2: with use_hybrid and at least one keyword, the returned list is in   *)
(* descending combined_score and holds the top_k highest-scored candidates *)
(* that survived the category filter.                                      *)
C2_FinalByCombinedScore ==
    (Returned /\ use_hybrid /\ keywords # <<>>) =>
        /\ Len(final_results) = Min(top_k, Len(filtered_results))
        /\ \A i, j \in 1..Len(final_results) :
               i < j => final_results[i].combined_score
                            >= final_results[j].combined_score
        /\ \A i \in 1..Len(final_results) : \A j \in 1..Len(filtered_results) :
               final_results[i].combined_score < filtered_results[j].combined_score
                   => \E m \in 1..Len(final_results) :
                          final_results[m] = filtered_results[j]

-----------------------------------------------------------------------------
(* C3: on a non-empty corpus retrieve returns at least one result, for     *)
(* every query, categories mapping and value of use_hybrid.                *)
C3_AtLeastOneResult ==
    (pc = "done" /\ Len(metadata) >= 1 /\ top_k >= 1 /\ raised # "APIError") =>
        raised = "none" /\ Len(final_results) >= 1

(* A call whose category matches no song of the corpus has returned.       *)
C3_Witness ==
    /\ Returned
    /\ Len(metadata) >= 1
    /\ categories = << <<"gyeo", "ul">> >>
    /\ Len(final_results) >= 1

-----------------------------------------------------------------------------
(* C4: the filter is fail-open: some category value is non-empty and no    *)
(* candidate's searchable text contains any of them => the candidate list  *)
(* comes back unchanged, so a non-empty input never gives an empty output. *)
NonEmptyValues(cats) == {cats[i] : i \in {j \in 1..Len(cats) : cats[j] # <<>>}}

TextOf(r) == Lower(r.title \o <<" ">> \o r.feature_summary \o <<" ">> \o r.lyrics)

C4_FailOpen ==
    (Filtered /\ NonEmptyValues(categories) # {}
       /\ \A i \in 1..Len(combined_results) : \A v \in NonEmptyValues(categories) :
              ~Contains(TextOf(combined_results[i]), Lower(v)))
    => /\ filtered_results = combined_results
       /\ (combined_results # <<>> => filtered_results # <<>>)

C4_Witness ==
    /\ Filtered
    /\ categories = << <<"gyeo", "ul">> >>
    /\ Len(combined_results) >= 2
    /\ filtered_results = combined_results

-----------------------------------------------------------------------------
(* C5: with an empty mapping, or every value the empty string, the filter  *)
(* step is the identity.                                                   *)
C5_NoConstraintIdentity ==
    (Filtered /\ NonEmptyValues(categories) = {})
    => filtered_results = combined_results

C5_Witness ==
    /\ Filtered
    /\ categories = << <<>> >>
    /\ Len(combined_results) >= 2
    /\ filtered_results = combined_results

-----------------------------------------------------------------------------
(* C6 as stated: when a candidate matches, the output is exactly the       *)
(* candidates whose text contains one of the lower-cased NON-EMPTY values, *)
(* in input order.                                                         *)
MatchesAny(r, values) == \E v \in values : Contains(TextOf(r), Lower(v))

MatchesNonEmpty(r) == MatchesAny(r, NonEmptyValues(categories))

C6_Original ==
    (Filtered /\ \E i \in 1..Len(combined_results) :
                     MatchesNonEmpty(combined_results[i]))
    => filtered_results = SelectSeq(combined_results, MatchesNonEmpty)

(* C6 amended: the patterns are the values that are non-empty after        *)
(* stripping whitespace; a blank value is no pattern.                      *)
NonBlankValues(cats) == {v \in NonEmptyValues(cats) : ~IsBlank(v)}

MatchesNonBlank(r) == MatchesAny(r, NonBlankValues(categories))

C6_FilterExact ==
    (Filtered /\ \E i \in 1..Len(combined_results) :
                     MatchesNonBlank(combined_results[i]))
    => filtered_results = SelectSeq(combined_results, MatchesNonBlank)

(* Two categories, OR: a candidate that matches only one of them passes    *)
(* and one that matches neither is dropped.                                *)
C6_Witness ==
    /\ Filtered
    /\ categories = << <<"hae">>, <<"A", "B">> >>
    /\ Len(filtered_results) >= 1
    /\ Len(filtered_results) < Len(combined_results)

-----------------------------------------------------------------------------
(* What the fusion formula gives a document, stated on the two lists.      *)

DistanceIn(results, idx) == results[FirstPosition(results, idx)].distance

KeywordScoreIn(results, idx) == results[FirstPosition(results, idx)].keyword_score

(* 0.7 * (1 / (distance + 1)), in units of 1/(10*ScoreUnit).               *)
VectorTerm(distance) == (7 * Tenth * DistUnit) \div (distance + DistUnit)

(* 0.3 * (keyword_score / (keyword_score + 1)).                            *)
KeywordTerm(ks) == (3 * Tenth * ks) \div (ks + 1)

FormulaScore(idx) ==
    (IF idx \in Indices(vector_results)
     THEN VectorTerm(DistanceIn(vector_results, idx)) ELSE 0)
    + (IF idx \in Indices(keyword_results)
       THEN KeywordTerm(KeywordScoreIn(keyword_results, idx)) ELSE 0)

ScoreIn(combined, idx) == combined[FirstPosition(combined, idx)].combined_score

Without(results, idx) ==
    LET other(r) == r.index # idx IN SelectSeq(results, other)

-----------------------------------------------------------------------------
(* C7: every fused document has combined_score = 0.7/(distance+1) if it is *)
(* in the vector list, plus 0.3*ks/(ks+1) if it is in the keyword list.    *)
C7_FusionFormula ==
    Fused => \A i \in 1..Len(combined_results) :
                 combined_results[i].combined_score
                     = FormulaScore(combined_results[i].index)

-----------------------------------------------------------------------------
(* C8: a document in both lists scores at least what it would score were   *)
(* it in the vector list alone, and at least what it would score were it   *)
(* in the keyword list alone.                                              *)
InBoth(idx) == idx \in Indices(vector_results) /\ idx \in Indices(keyword_results)

C8_BothAtLeastEither ==
    Fused => \A i \in 1..Len(combined_results) :
        LET idx == combined_results[i].index
        IN  InBoth(idx) =>
              /\ combined_results[i].combined_score >=
                   ScoreIn(CombinedDict(vector_results,
                                        Without(keyword_results, idx)), idx)
              /\ combined_results[i].combined_score >=
                   ScoreIn(CombinedDict(Without(vector_results, idx),
                                        keyword_results), idx)

C8_Witness ==
    /\ Fused
    /\ \E i \in 1..Len(combined_results) :
          /\ InBoth(combined_results[i].index)
          /\ combined_results[i].combined_score >
                 VectorTerm(DistanceIn(vector_results, combined_results[i].index))
          /\ combined_results[i].combined_score >
                 KeywordTerm(KeywordScoreIn(keyword_results,
                                            combined_results[i].index))

-----------------------------------------------------------------------------
(* C9 as stated: the fused list is in descending combined_score, equal     *)
(* scores in ascending index, and has at most the fusion width entries.    *)
C9_Original ==
    Fused =>
        /\ Len(combined_results) <= FusionWidth(top_k)
        /\ \A i, j \in 1..Len(combined_results) : i < j =>
               \/ combined_results[i].combined_score
                      > combined_results[j].combined_score
               \/ /\ combined_results[i].combined_score
                         = combined_results[j].combined_score
                  /\ combined_results[i].index < combined_results[j].index

(* Where a document entered the fusion: its first place in the vector      *)
(* list, or after the whole vector list its place in the keyword list.     *)
InsertionRank(idx) ==
    IF idx \in Indices(vector_results)
    THEN FirstPosition(vector_results, idx)
    ELSE Len(vector_results) + FirstPosition(keyword_results, idx)

(* C9 amended: descending combined_score, equal scores in the order in     *)
(* which the documents entered the fusion (vector list first, then keyword *)
(* list), cut to the fusion width.                                         *)
C9_SortedTruncated ==
    Fused =>
        /\ Len(combined_results) =
               Min(FusionWidth(top_k),
                   Cardinality(Indices(vector_results) \cup Indices(keyword_results)))
        /\ \A i, j \in 1..Len(combined_results) : i < j =>
               \/ combined_results[i].combined_score
                      > combined_results[j].combined_score
               \/ /\ combined_results[i].combined_score
                         = combined_results[j].combined_score
                  /\ InsertionRank(combined_results[i].index)
                         < InsertionRank(combined_results[j].index)

(* Two fused documents with equal scores, the larger index first.          *)
C9_Witness ==
    /\ Fused
    /\ \E i, j \in 1..Len(combined_results) :
          /\ i < j
          /\ combined_results[i].combined_score = combined_results[j].combined_score
          /\ combined_results[i].index > combined_results[j].index

-----------------------------------------------------------------------------
(* C10: per candidate the vector contribution is in (0, 0.7], the keyword  *)
(* contribution in (0, 0.3], and every combined_score in (0, 1.0], also    *)
(* when an index occurs more than once in the vector list.                 *)
RECURSIVE VectorContribution(_, _)
VectorContribution(results, idx) ==
    IF results = <<>> THEN 0
    ELSE (IF Head(results).index = idx THEN VectorScore(Head(results).distance)
          ELSE 0)
         + VectorContribution(Tail(results), idx)

C10_ScoresBounded ==
    Fused =>
        /\ \A idx \in Indices(vector_results) :
               /\ 0 < VectorContribution(vector_results, idx)
               /\ VectorContribution(vector_results, idx) <= 7 * Tenth
        /\ \A i \in 1..Len(keyword_results) :
               /\ 0 < KeywordScore(keyword_results[i].keyword_score)
               /\ KeywordScore(keyword_results[i].keyword_score) <= 3 * Tenth
        /\ \A i \in 1..Len(combined_results) :
               /\ 0 < combined_results[i].combined_score
               /\ combined_results[i].combined_score <= 10 * Tenth

(* The padded label -1 occurs twice in the vector list and is fused.       *)
C10_Witness ==
    /\ Fused
    /\ Cardinality(Positions(vector_results, 0 - 1)) >= 2
    /\ (0 - 1) \in Indices(combined_results)
    /\ \E i \in 1..Len(combined_results) : InBoth(combined_results[i].index)

-----------------------------------------------------------------------------
(* Keyword search.                                                         *)

(* Song idx is on the posting list of the keyword.                         *)
InPosting(keyword, idx) ==
    /\ keyword \in DOMAIN keyword_index
    /\ \E j \in 1..Len(keyword_index[keyword]) : keyword_index[keyword][j] = idx

(* The positions of the extracted keyword list that hit song idx.          *)
Hits(idx) == {i \in 1..Len(keywords) : InPosting(keywords[i], idx)}

(* The different keywords that hit song idx.                               *)
DistinctHits(idx) == {keywords[i] : i \in Hits(idx)}

Matching == {idx \in 0..(Len(metadata) - 1) : Hits(idx) # {}}

HitCount(idx) == Cardinality(Hits(idx))

(* When the Counter first saw the song: the first keyword that finds it,   *)
(* then the song's place on that keyword's posting list.                   *)
FirstHit(idx) == CHOOSE i \in Hits(idx) : \A j \in Hits(idx) : i <= j

PlaceInPosting(idx) ==
    LET posting == keyword_index[keywords[FirstHit(idx)]]
    IN  CHOOSE j \in 1..Len(posting) : posting[j] = idx

CountedBefore(a, b) ==
    \/ FirstHit(a) < FirstHit(b)
    \/ FirstHit(a) = FirstHit(b) /\ PlaceInPosting(a) < PlaceInPosting(b)

(* At most k candidates, none scored below an omitted song.                *)
KeywordResultsBest ==
    /\ Len(keyword_results) = Min(KeywordWidth(top_k), Cardinality(Matching))
    /\ Indices(keyword_results) \subseteq Matching
    /\ \A i \in 1..Len(keyword_results) : \A idx \in Matching :
           idx \notin Indices(keyword_results) =>
               HitCount(idx) <= keyword_results[i].keyword_score

(* C12 as stated: the keyword search returns at most k candidates by       *)
(* descending keyword_score, equal scores by ascending document index, and *)
(* omits no song in favour of a lower-scored one.                          *)
C12_Original ==
    Fused =>
        /\ KeywordResultsBest
        /\ \A i, j \in 1..Len(keyword_results) :
               i < j =>
                   \/ keyword_results[i].keyword_score
                          > keyword_results[j].keyword_score
                   \/ /\ keyword_results[i].keyword_score
                            = keyword_results[j].keyword_score
                      /\ keyword_results[i].index < keyword_results[j].index

(* C12: the keyword search returns at most k candidates by descending      *)
(* keyword_score, equal scores in the order in which the songs were first  *)
(* counted (keyword by keyword, each posting list in order), and omits no  *)
(* song in favour of a lower-scored one.                                   *)
C12_RankedByScore ==
    Fused =>
        /\ KeywordResultsBest
        /\ \A i, j \in 1..Len(keyword_results) :
               i < j =>
                   \/ keyword_results[i].keyword_score
                          > keyword_results[j].keyword_score
                   \/ /\ keyword_results[i].keyword_score
                            = keyword_results[j].keyword_score
                      /\ CountedBefore(keyword_results[i].index,
                                       keyword_results[j].index)

(* A keyword search that ranks two equally scored songs with the higher    *)
(* document index first, and one that had to omit a matching song.         *)
C12_Witness ==
    /\ Fused
    /\ \E i, j \in 1..Len(keyword_results) :
           /\ i < j
           /\ keyword_results[i].keyword_score = keyword_results[j].keyword_score
           /\ keyword_results[i].index > keyword_results[j].index

C12_WitnessOmitted ==
    /\ Fused
    /\ Len(keyword_results) >= 2
    /\ Len(keyword_results) < Cardinality(Matching)
    /\ keyword_results[1].keyword_score > keyword_results[2].keyword_score

-----------------------------------------------------------------------------
(* Keyword extraction on its own: _extract_keywords applied to queries of  *)
(* up to MaxRepeat repetitions of up to MaxBaseWords words.                *)

MaxBaseWords == 3
MaxRepeat == 6

(* A keyword, a capitalised stop word, a one-letter word, a capitalised    *)
(* keyword, a Hangul keyword, and nothing (two blanks in a row).           *)
KwWords ==
    { <<"a", "b">>, <<"T", "h", "e">>, <<"a">>, <<"B", "a">>,
      <<"no", "rae">>, <<>> }

RECURSIVE JoinWords(_)
JoinWords(ws) ==
    IF ws = <<>> THEN <<>>
    ELSE IF Len(ws) = 1 THEN Head(ws)
    ELSE Head(ws) \o <<" ">> \o JoinWords(Tail(ws))

Repeated(ws, n) == [i \in 1..(n * Len(ws)) |-> ws[((i - 1) % Len(ws)) + 1]]

KwBases == UNION {[1..n -> KwWords] : n \in 0..MaxBaseWords}

KwQueries == {JoinWords(Repeated(b, n)) : b \in KwBases, n \in 1..MaxRepeat}

KwInit ==
    /\ metadata = CorpusEmpty
    /\ ntotal = 0
    /\ song_texts = BuildSongTexts(CorpusEmpty)
    /\ keyword_index = BuildKeywordIndex(BuildSongTexts(CorpusEmpty))
    /\ pc = "extract"
    /\ search_query \in KwQueries
    /\ top_k = 0
    /\ categories = <<>>
    /\ use_hybrid = FALSE
    /\ faiss_order = <<>>
    /\ vector_results = <<>>
    /\ keywords = <<>>
    /\ keyword_results = <<>>
    /\ combined_results = <<>>
    /\ filtered_results = <<>>
    /\ final_results = <<>>
    /\ raised = "none"
    /\ artifact = CorpusEmpty
    /\ loads = 1
    /\ disk = DiskWith(0)
    /\ EnvAtRest

(* keywords = self._extract_keywords(query)                                *)
ExtractStep ==
    /\ pc = "extract"
    /\ keywords' = ExtractKeywords(search_query)
    /\ pc' = "extracted"
    /\ UNCHANGED <<db_vars, env_vars, search_query, top_k, categories,
                   use_hybrid, faiss_order, vector_results, keyword_results,
                   combined_results, filtered_results, final_results, raised>>

KwNext == ExtractStep

SpecKw == KwInit /\ [][KwNext]_vars

(* The maximal word-character runs of a text, as <<first, last>>.          *)
Runs(text) ==
    {r \in (1..Len(text)) \X (1..Len(text)) :
        /\ r[1] <= r[2]
        /\ \A i \in r[1]..r[2] : text[i] # " "
        /\ r[1] = 1 \/ text[r[1] - 1] = " "
        /\ r[2] = Len(text) \/ text[r[2] + 1] = " "}

(* The runs that qualify: two characters or more, and lower-cased not a    *)
(* stop word.                                                              *)
Qualifying(text) ==
    {r \in Runs(text) :
        /\ r[2] - r[1] >= 1
        /\ Lower(SubSeq(text, r[1], r[2])) \notin StopWords}

(* The n-th run from the left of a set of runs.                            *)
NthRun(runs, n) ==
    CHOOSE r \in runs : Cardinality({o \in runs : o[1] < r[1]}) = n - 1

(* C13: _extract_keywords returns the first 10 (or all, if fewer) of the   *)
(* query's maximal word-character runs of length >= 2 that, lower-cased,   *)
(* are not stop words, lower-cased and in their order in the query.        *)
C13_FirstTenKeywords ==
    pc = "extracted" =>
        LET runs == Qualifying(search_query)
        IN  /\ Len(keywords) = Min(10, Cardinality(runs))
            /\ \A n \in 1..Len(keywords) :
                   LET r == NthRun(runs, n)
                   IN  keywords[n] = Lower(SubSeq(search_query, r[1], r[2]))

(* An extraction that cut a query of more than 10 qualifying tokens, one   *)
(* of them capitalised, with a stop word and a short token among them.     *)
C13_Witness ==
    /\ pc = "extracted"
    /\ Len(keywords) = 10
    /\ Cardinality(Qualifying(search_query)) > 10
    /\ Cardinality(Runs(search_query)) > Cardinality(Qualifying(search_query))
    /\ \E n \in 1..10 : keywords[n] = <<"b", "a">>

-----------------------------------------------------------------------------
(* A query without keywords.                                               *)

(* C14: for a query from which no keyword survives, the keyword search     *)
(* returns the empty list, and a hybrid retrieve that returns has run      *)
(* neither keyword search nor fusion: every entry is a vector-search       *)
(* candidate without keyword_score or combined_score, and the list is in   *)
(* ascending distance.                                                     *)
C14_NoKeywordsVectorOnly ==
    (Returned /\ use_hybrid /\ Qualifying(search_query) = {}) =>
        /\ search_by_keywords(ExtractKeywords(search_query), KeywordWidth(top_k))
               = <<>>
        /\ keyword_results = <<>>
        /\ \A i \in 1..Len(final_results) :
               /\ "keyword_score" \notin DOMAIN final_results[i]
               /\ "combined_score" \notin DOMAIN final_results[i]
               /\ \E j \in 1..Len(vector_results) :
                      final_results[i] = vector_results[j]
        /\ \A i, j \in 1..Len(final_results) :
               i < j => final_results[i].distance <= final_results[j].distance

(* Hybrid calls that returned songs for a query of stop words only, for a  *)
(* query of one one-character word, and for the empty query.               *)
C14_Witness ==
    /\ Returned /\ use_hybrid /\ final_results # <<>>
    /\ search_query = <<"t", "h", "e", " ", "o", "f">>

C14_WitnessShort ==
    /\ Returned /\ use_hybrid /\ final_results # <<>>
    /\ search_query = <<"dal">>

C14_WitnessEmpty ==
    /\ Returned /\ use_hybrid /\ final_results # <<>>
    /\ search_query = <<>>

-----------------------------------------------------------------------------
(* The vector search's answer; bad arguments; the empty corpus.            *)

(* The vector search of the call has answered.                             *)
Searched == pc \in {"hybrid", "filter", "select", "done"} /\ raised = "none"

(* C15: search_similar(query, k) returns at most min(k, corpus size)       *)
(* candidates, in non-decreasing distance; on a corpus of fewer than k     *)
(* songs the list is shorter than k, not padded.                           *)
C15_AtMostCorpusSize ==
    Searched =>
        /\ Len(vector_results)
               <= Min(VectorWidth(top_k, use_hybrid), Len(metadata))
        /\ \A i, j \in 1..Len(vector_results) :
               i < j => vector_results[i].distance <= vector_results[j].distance

(* C16: retrieve called with top_k < 1 ends with an invalid-argument       *)
(* error, before any search, and returns no list.                          *)
C16_RejectsTopKBelowOne ==
    (top_k < 1 /\ pc # "idle") =>
        /\ pc = "done" => raised = "InvalidArgumentError"
        /\ pc \notin {"vector", "hybrid", "filter", "select"}

(* C17: on the empty corpus, retrieve with top_k >= 1 returns the empty    *)
(* list and raises nothing, whatever use_hybrid and categories are.        *)
C17_EmptyCorpusEmptyList ==
    (pc = "done" /\ Len(metadata) = 0 /\ ntotal = 0 /\ top_k >= 1
        /\ raised # "APIError") =>
        /\ raised = "none"
        /\ final_results = <<>>

-----------------------------------------------------------------------------
(* What a call leaves alone.                                               *)

(* C18: no step of a call changes the metadata, the index size, the song   *)
(* texts or the keyword index, nor the corpus files; and a list a call has *)
(* built is not changed by the later steps of the call: fusion leaves the  *)
(* vector and keyword candidates as they were (it annotates copies), the   *)
(* filter leaves the fused list, the final sort leaves the filtered list.  *)
C18_CallsMutateNothing ==
    [][ /\ db_vars' = db_vars
        /\ artifact' = artifact
        /\ pc \in {"hybrid", "filter", "select"} =>
               vector_results' = vector_results
        /\ pc \in {"filter", "select"} =>
               /\ keyword_results' = keyword_results
               /\ combined_results' = combined_results
        /\ pc = "select" => filtered_results' = filtered_results ]_vars

(* A returned fused call: the fused list carries combined_score for a song *)
(* of both searches, whose vector and keyword candidates carry none.       *)
C18_Witness ==
    /\ Fused /\ pc = "done" /\ loads = 1
    /\ \E i \in 1..Len(combined_results) :
           /\ combined_results[i].combined_score > 0
           /\ combined_results[i].index \in Indices(vector_results)
           /\ combined_results[i].index \in Indices(keyword_results)
    /\ \A i \in 1..Len(vector_results) :
           "combined_score" \notin DOMAIN vector_results[i]
    /\ \A i \in 1..Len(keyword_results) :
           "combined_score" \notin DOMAIN keyword_results[i]

-----------------------------------------------------------------------------
(* Concurrent retrieve calls on one RetrieverAgent: each worker runs the   *)
(* steps of retrieve on its own locals (calls[p]); the workers share self, *)
(* that is the DongyoVectorDB.  The steps interleave freely.               *)

ConcQueries ==
    { <<"a", "b", " ", "b", "a">>,                 \* two keywords
      <<"t", "h", "e", " ", "A", "b">>,            \* one keyword
      <<"t", "h", "e", " ", "o", "f">> }           \* none

ConcCategories == { <<>>, << <<"hae">>, <<"A", "B">> >> }

AfterEmbed(c, order) == [c EXCEPT !.faiss_order = order, !.pc = "vector"]

AfterVectorSearch(c) ==
    LET k == VectorWidth(c.top_k, c.use_hybrid)
    IN  IF search_similar_raises(c.faiss_order, k)
        THEN [c EXCEPT !.raised = "IndexError", !.pc = "done"]
        ELSE [c EXCEPT !.vector_results = search_similar(c.faiss_order, k),
                       !.pc = "hybrid"]

(* Variant: the keyword candidates are kept on self, so that a call fuses  *)
(* with whatever keyword candidates the latest keyword search left there.  *)
AfterHybrid_shared(c) ==
    LET kws == ExtractKeywords(c.search_query)
        mine == search_by_keywords(kws, KeywordWidth(c.top_k))
        left == {calls[p].keyword_results : p \in Workers} \ {<<>>}
        kwr == IF left = {} THEN mine ELSE CHOOSE r \in left : TRUE
    IN  IF c.use_hybrid /\ kws # <<>>
        THEN [c EXCEPT !.keywords = kws,
                       !.keyword_results = mine,
                       !.combined_results =
                           combine_results(c.vector_results, kwr,
                                           FusionWidth(c.top_k)),
                       !.pc = "filter"]
        ELSE [c EXCEPT !.combined_results = c.vector_results, !.pc = "filter"]

AfterHybrid(c) ==
    LET kws == ExtractKeywords(c.search_query)
        kwr == search_by_keywords(kws, KeywordWidth(c.top_k))
    IN  IF c.use_hybrid /\ kws # <<>>
        THEN [c EXCEPT !.keywords = kws,
                       !.keyword_results = kwr,
                       !.combined_results =
                           combine_results(c.vector_results, kwr,
                                           FusionWidth(c.top_k)),
                       !.pc = "filter"]
        ELSE [c EXCEPT !.combined_results = c.vector_results, !.pc = "filter"]

AfterFilter(c) ==
    [c EXCEPT !.filtered_results =
                  IF c.categories # <<>>
                  THEN filter_by_categories(c.combined_results, c.categories)
                  ELSE c.combined_results,
              !.pc = "select"]

AfterSelect(c) ==
    [c EXCEPT !.final_results = FinalSelect(c.filtered_results, c.top_k),
              !.pc = "done"]

WorkerCall(p) ==
    /\ calls[p].pc = "idle"
    /\ \E q \in ConcQueries, k \in 1..MaxTopK, c \in ConcCategories, h \in BOOLEAN :
           calls' = [calls EXCEPT ![p] =
                        [IdleCall EXCEPT !.search_query = q, !.top_k = k,
                                         !.categories = c, !.use_hybrid = h,
                                         !.pc = "embed"]]
    /\ UNCHANGED <<db_vars, call_vars, artifact, loads, disk, columns_db, song_req,
                   log_rows, event_id_current>>

WorkerEmbed(p) ==
    /\ calls[p].pc = "embed"
    /\ \E order \in FaissOrders(ntotal) :
           calls' = [calls EXCEPT ![p] = AfterEmbed(calls[p], order)]
    /\ UNCHANGED <<db_vars, call_vars, artifact, loads, disk, columns_db, song_req,
                   log_rows, event_id_current>>

WorkerVectorSearch(p) ==
    /\ calls[p].pc = "vector"
    /\ calls' = [calls EXCEPT ![p] = AfterVectorSearch(calls[p])]
    /\ UNCHANGED <<db_vars, call_vars, artifact, loads, disk, columns_db, song_req,
                   log_rows, event_id_current>>

WorkerHybrid(p) ==
    /\ calls[p].pc = "hybrid"
    /\ calls' = [calls EXCEPT ![p] = AfterHybrid(calls[p])]
    /\ UNCHANGED <<db_vars, call_vars, artifact, loads, disk, columns_db, song_req,
                   log_rows, event_id_current>>

WorkerFilter(p) ==
    /\ calls[p].pc = "filter"
    /\ calls' = [calls EXCEPT ![p] = AfterFilter(calls[p])]
    /\ UNCHANGED <<db_vars, call_vars, artifact, loads, disk, columns_db, song_req,
                   log_rows, event_id_current>>

WorkerSelect(p) ==
    /\ calls[p].pc = "select"
    /\ calls' = [calls EXCEPT ![p] = AfterSelect(calls[p])]
    /\ UNCHANGED <<db_vars, call_vars, artifact, loads, disk, columns_db, song_req,
                   log_rows, event_id_current>>

WorkerReturn(p) ==
    /\ calls[p].pc = "done"
    /\ calls' = [calls EXCEPT ![p] = IdleCall]
    /\ UNCHANGED <<db_vars, call_vars, artifact, loads, disk, columns_db, song_req,
                   log_rows, event_id_current>>

ConcInit ==
    /\ Init
    /\ metadata = CorpusLatin

ConcNext ==
    \E p \in Workers :
        \/ WorkerCall(p)
        \/ WorkerEmbed(p)
        \/ WorkerVectorSearch(p)
        \/ WorkerHybrid(p)
        \/ WorkerFilter(p)
        \/ WorkerSelect(p)
        \/ WorkerReturn(p)

SpecConc == ConcInit /\ [][ConcNext]_vars

(* What retrieve returns when it runs alone on the built indexes, given    *)
(* the answer order of the index.                                          *)
AloneCombined(q, k, h, order) ==
    LET vec == search_similar(order, VectorWidth(k, h))
        kws == ExtractKeywords(q)
    IN  IF h /\ kws # <<>>
        THEN combine_results(vec, search_by_keywords(kws, KeywordWidth(k)),
                             FusionWidth(k))
        ELSE vec

RetrieveAlone(q, k, cats, h, order) ==
    LET combined == AloneCombined(q, k, h, order)
    IN  FinalSelect(IF cats # <<>> THEN filter_by_categories(combined, cats)
                    ELSE combined, k)

(* C19: whatever the interleaving, a call that is done has the list it     *)
(* would have alone, given its arguments and the index's answer.           *)
C19_ConcurrentCallsIndependent ==
    \A p \in Workers :
        calls[p].pc = "done" =>
            /\ calls[p].raised = "none"
            /\ calls[p].final_results =
                   RetrieveAlone(calls[p].search_query, calls[p].top_k,
                                 calls[p].categories, calls[p].use_hybrid,
                                 calls[p].faiss_order)

(* Two hybrid calls with different queries, both past their keyword search *)
(* and both done, with different keyword candidates.                       *)
C19_Witness ==
    /\ calls[1].pc = "done" /\ calls[2].pc = "done"
    /\ calls[1].keyword_results # <<>>
    /\ calls[2].keyword_results # <<>>
    /\ calls[1].keyword_results # calls[2].keyword_results
    /\ calls[1].final_results # calls[2].final_results

-----------------------------------------------------------------------------
(* The server process (server.py): the lyric-generation handlers build a   *)
(* RAGOrchestrator, and with it a RetrieverAgent and its DongyoVectorDB,   *)
(* inside the request.                                                     *)

(* The model stops counting constructions here.                            *)
MaxLoads == 2

(* orchestrator.generate_lyrics(req.study_text, top_k=3, use_rag=True)     *)
ServerTopK == 3

(* The process has started: no DongyoVectorDB exists yet.                  *)
ServerInit ==
    /\ artifact \in Corpora
    /\ loads = 0
    /\ metadata = <<>>
    /\ ntotal = 0
    /\ song_texts = <<>>
    /\ keyword_index = <<>>
    /\ pc = "idle"
    /\ search_query = <<>>
    /\ top_k = 0
    /\ categories = <<>>
    /\ use_hybrid = FALSE
    /\ faiss_order = <<>>
    /\ vector_results = <<>>
    /\ keywords = <<>>
    /\ keyword_results = <<>>
    /\ combined_results = <<>>
    /\ filtered_results = <<>>
    /\ final_results = <<>>
    /\ raised = "none"
    /\ disk = DiskWith(Len(artifact))
    /\ EnvAtRest

(* POST /generate-lyrics, or /mnemonic-plan without lyrics: the handler    *)
(* constructs RAGOrchestrator(api_key), whose RetrieverAgent constructs a  *)
(* DongyoVectorDB (_load_data, _build_keyword_index), and generate_lyrics  *)
(* calls retrieve with the query agent's search query and categories,      *)
(* top_k = 3 and use_hybrid = True.                                        *)
ServeRequest ==
    /\ pc = "idle"
    /\ loads < MaxLoads
    /\ loads' = loads + 1
    /\ metadata' = artifact
    /\ ntotal' = Len(artifact)
    /\ song_texts' = BuildSongTexts(artifact)
    /\ keyword_index' = BuildKeywordIndex(BuildSongTexts(artifact))
    /\ \E q \in Queries, c \in CategorySets :
           search_query' = q /\ categories' = c
    /\ top_k' = ServerTopK
    /\ use_hybrid' = TRUE
    /\ pc' = "embed"
    /\ UNCHANGED <<calls, artifact, disk, columns_db, song_req, log_rows,
                   event_id_current, faiss_order, vector_results, keywords,
                   keyword_results, combined_results, filtered_results,
                   final_results, raised>>

ServerNext ==
    \/ ServeRequest
    \/ Embed
    \/ EmbedFails
    \/ VectorSearch
    \/ VectorSearchRaises
    \/ HybridFuse
    \/ HybridNoKeywords
    \/ Filter
    \/ Select
    \/ Return

SpecServer == ServerInit /\ [][ServerNext]_vars

(* C20: over the requests one process serves, the corpus metadata is       *)
(* loaded and the indexes are built once only.                             *)
C20_LoadedOnce == loads <= 1

-----------------------------------------------------------------------------
(* A failing embedding call.                                               *)

(* The call has built nothing: every local list is empty.                  *)
NothingBuilt ==
    /\ faiss_order = <<>>
    /\ vector_results = <<>>
    /\ keywords = <<>>
    /\ keyword_results = <<>>
    /\ combined_results = <<>>
    /\ filtered_results = <<>>
    /\ final_results = <<>>

(* The store is as the constructor built it from the files.                *)
StoreAsBuilt ==
    /\ metadata = artifact
    /\ ntotal = disk.index_ntotal
    /\ song_texts = BuildSongTexts(artifact)
    /\ keyword_index = BuildKeywordIndex(BuildSongTexts(artifact))

(* C21: when the embedding call fails the call ends with that error, has   *)
(* run no search and no fusion and holds no result list, and the store is  *)
(* as it was built; between calls the agent is in the state it had before  *)
(* its first call, so a later call cannot tell that a call failed.         *)
C21_EmbeddingFailureFailsCall ==
    /\ raised = "APIError" => (pc = "done" /\ NothingBuilt /\ StoreAsBuilt)
    /\ pc = "idle" =>
           /\ NothingBuilt /\ StoreAsBuilt
           /\ raised = "none" /\ search_query = <<>> /\ categories = <<>>

(* A hybrid call on the three-song corpus ended by the embedding error.    *)
C21_Witness ==
    /\ pc = "done"
    /\ raised = "APIError"
    /\ use_hybrid
    /\ top_k >= 1
    /\ Len(metadata) = 3

-----------------------------------------------------------------------------
(* Construction of the store: DongyoVectorDB.__init__ runs _load_data and  *)
(* then _build_keyword_index (vector_db.py:22-97).  The embeddings file    *)
(* holds the metadata, the index file a faiss index of its own size.       *)

(* Sizes of the index file: nothing up to one vector more than the largest *)
(* corpus.                                                                 *)
IndexSizes == 0..(Len(CorpusScenario) + 1)

(* DongyoVectorDB(...) is called: no attribute is set yet.                 *)
LoadInit ==
    /\ artifact \in Corpora
    /\ disk \in [embeddings_exists : BOOLEAN, index_exists : BOOLEAN,
                  index_ntotal : IndexSizes]
    /\ loads = 0
    /\ metadata = <<>>
    /\ ntotal = 0
    /\ song_texts = <<>>
    /\ keyword_index = <<>>
    /\ pc = "new"
    /\ search_query = <<>>
    /\ top_k = 0
    /\ categories = <<>>
    /\ use_hybrid = FALSE
    /\ faiss_order = <<>>
    /\ vector_results = <<>>
    /\ keywords = <<>>
    /\ keyword_results = <<>>
    /\ combined_results = <<>>
    /\ filtered_results = <<>>
    /\ final_results = <<>>
    /\ raised = "none"
    /\ EnvAtRest

(* Variant: the metadata is unpickled before the index file is looked for. *)
LoadDataNotFound_late ==
    /\ pc = "new"
    /\ ~disk.embeddings_exists \/ ~disk.index_exists
    /\ metadata' = IF disk.embeddings_exists THEN artifact ELSE metadata
    /\ raised' = "FileNotFoundError"
    /\ pc' = "failed"
    /\ UNCHANGED <<ntotal, song_texts, keyword_index, env_vars, search_query,
                   top_k, categories, use_hybrid, faiss_order, vector_results,
                   keywords, keyword_results, combined_results,
                   filtered_results, final_results>>

(* _load_data: either file is missing.                                     *)
LoadDataNotFound ==
    /\ pc = "new"
    /\ ~disk.embeddings_exists \/ ~disk.index_exists
    /\ raised' = "FileNotFoundError"
    /\ pc' = "failed"
    /\ UNCHANGED <<db_vars, env_vars, search_query, top_k, categories,
                   use_hybrid, faiss_order, vector_results, keywords,
                   keyword_results, combined_results, filtered_results,
                   final_results>>

(* _load_data: pickle.load and faiss.read_index; the song count is only    *)
(* printed.                                                                *)
LoadData ==
    /\ pc = "new"
    /\ disk.embeddings_exists /\ disk.index_exists
    /\ metadata' = artifact
    /\ ntotal' = disk.index_ntotal
    /\ loads' = loads + 1
    /\ pc' = "loaded"
    /\ UNCHANGED <<song_texts, keyword_index, calls, artifact, disk, columns_db,
                   song_req, log_rows, event_id_current, search_query, top_k,
                   categories, use_hybrid, faiss_order, vector_results,
                   keywords, keyword_results, combined_results,
                   filtered_results, final_results, raised>>

(* _build_keyword_index; the constructor returns and the store is in use.  *)
BuildIndex ==
    /\ pc = "loaded"
    /\ song_texts' = BuildSongTexts(metadata)
    /\ keyword_index' = BuildKeywordIndex(BuildSongTexts(metadata))
    /\ pc' = "in_service"
    /\ UNCHANGED <<metadata, ntotal, env_vars, search_query, top_k, categories,
                   use_hybrid, faiss_order, vector_results, keywords,
                   keyword_results, combined_results, filtered_results,
                   final_results, raised>>

(* A search_similar call on the store that was built.                      *)
ServiceSearch ==
    /\ pc = "in_service"
    /\ \E k \in 1..MaxTopK, order \in FaissOrders(ntotal) :
           /\ top_k' = k
           /\ faiss_order' = order
           /\ IF search_similar_raises(order, k)
              THEN raised' = "IndexError" /\ vector_results' = <<>>
              ELSE raised' = "none" /\ vector_results' = search_similar(order, k)
    /\ pc' = "searched"
    /\ UNCHANGED <<db_vars, env_vars, search_query, categories, use_hybrid,
                   keywords, keyword_results, combined_results,
                   filtered_results, final_results>>

LoadNext ==
    \/ LoadDataNotFound
    \/ LoadData
    \/ BuildIndex
    \/ ServiceSearch

SpecLoad == LoadInit /\ [][LoadNext]_vars

(* C22: when either file is missing the constructor ends with the          *)
(* not-found error and has loaded no metadata, read no index and built no  *)
(* keyword index.                                                          *)
C22_MissingFileNotFound ==
    (pc # "new" /\ (~disk.embeddings_exists \/ ~disk.index_exists)) =>
        /\ pc = "failed"
        /\ raised = "FileNotFoundError"
        /\ loads = 0
        /\ metadata = <<>> /\ ntotal = 0
        /\ song_texts = <<>> /\ keyword_index = <<>>

(* The constructor failed although the embeddings file is there: only the  *)
(* index file is missing, and the corpus on disk is not empty.             *)
C22_Witness ==
    /\ pc = "failed"
    /\ disk.embeddings_exists /\ ~disk.index_exists
    /\ artifact # <<>>

(* C23: a store whose index holds more or fewer vectors than its metadata  *)
(* has songs is never in service: construction ends with a format error.   *)
C23_CountMismatchRejected ==
    pc \in {"in_service", "searched"} => ntotal = Len(metadata)

-----------------------------------------------------------------------------
(* The keyword index against the song texts.                               *)

(* The tokens of a text: its maximal runs of word characters.              *)
TokensOf(text) == {SubSeq(text, r[1], r[2]) : r \in Runs(text)}

(* Every token of every song, every keyword a query of the model yields,   *)
(* and every key of the index.                                             *)
TokenUniverse ==
    UNION {TokensOf(song_texts[i]) : i \in 1..Len(song_texts)}
        \cup UNION {{ExtractKeywords(q)[j] : j \in 1..Len(ExtractKeywords(q))}
                       : q \in Queries}
        \cup DOMAIN keyword_index

(* The three fields of a complete record, joined by single blanks.         *)
JoinedFields(meta) ==
    meta.title \o <<" ">> \o meta.feature_summary \o <<" ">> \o meta.lyrics

C24_WitnessRepeated ==
    /\ pc = "in_service"
    /\ Len(metadata) = 1
    /\ Cardinality({r \in Runs(song_texts[1]) :
           SubSeq(song_texts[1], r[1], r[2]) = <<"a", "b">>}) = 2
    /\ keyword_index[<<"a", "b">>] = <<0>>

-----------------------------------------------------------------------------
(* Records that lack a field.                                              *)

(* A field of a record, the empty string when the record lacks it.         *)
FieldOrEmpty(meta, k) == IF k \in DOMAIN meta THEN meta[k] ELSE <<>>

(* The searchable text of a record whose missing fields are empty.         *)
TextWithEmpties(meta) ==
    Lower(FieldOrEmpty(meta, "title") \o <<" ">>
          \o FieldOrEmpty(meta, "feature_summary") \o <<" ">>
          \o FieldOrEmpty(meta, "lyrics"))

(* C25: a field a record lacks is the empty string in the candidates of    *)
(* the vector search and in the text the keyword index is built from, so   *)
(* that every song on a posting list has the token in one of its fields.   *)
C25_MissingFieldIsEmpty ==
    pc \in {"in_service", "searched"} =>
        /\ \A i \in 1..Len(vector_results) :
               LET meta == MetaAt(vector_results[i].index)
               IN  /\ vector_results[i].title = FieldOrEmpty(meta, "title")
                   /\ vector_results[i].feature_summary
                          = FieldOrEmpty(meta, "feature_summary")
                   /\ vector_results[i].lyrics = FieldOrEmpty(meta, "lyrics")
        /\ \A i \in 1..Len(metadata) :
               song_texts[i] = TextWithEmpties(metadata[i])
        /\ \A t \in DOMAIN keyword_index : \A i \in 0..(Len(metadata) - 1) :
               InPosting(t, i) => t \in TokensOf(TextWithEmpties(metadata[i + 1]))

-----------------------------------------------------------------------------
(* The two shapes of the metadata: a list of records (the variables        *)
(* metadata, song_texts, keyword_index) and a dict of parallel columns     *)
(* (columns_db), the `isinstance(self.metadata, dict)` branches.           *)

(* Two songs, the first with a feature summary (gyeoul).                   *)
CorpusFeatured ==
    << [title |-> <<"dal", " ", "no", "rae">>,
        feature_summary |-> <<"gyeo", "ul">>,
        lyrics |-> <<"dal", "bit">>],
       [title |-> <<"byeol", " ", "no", "rae">>, feature_summary |-> <<>>,
        lyrics |-> <<"byeol", "yi">>] >>

ShapeCorpora == {CorpusScenario, CorpusFeatured}

(* The same documents as parallel columns.                                 *)
ColumnsOf(docs) ==
    [titles            |-> [i \in 1..Len(docs) |-> docs[i].title],
     lyrics            |-> [i \in 1..Len(docs) |-> docs[i].lyrics],
     feature_summaries |-> [i \in 1..Len(docs) |-> docs[i].feature_summary]]

(* A Python list read at idx: 0-based, a negative idx counts from the end. *)
ListAt(list, idx) == IF idx >= 0 THEN list[idx + 1]
                                 ELSE list[Len(list) + idx + 1]

(* _build_keyword_index, dict branch: text = f"{title} {lyrics}".lower()   *)
ColSongTexts(cols) ==
    [i \in 1..Len(cols.titles) |->
        Lower(cols.titles[i] \o <<" ">>
              \o (IF i <= Len(cols.lyrics) THEN cols.lyrics[i] ELSE <<>>))]

(* The store the constructor builds from a dict of columns.                *)
ColumnsDbOf(cols) ==
    [metadata |-> cols,
     song_texts |-> ColSongTexts(cols),
     keyword_index |-> BuildKeywordIndex(ColSongTexts(cols)),
     vector_results |-> <<>>, keyword_results |-> <<>>,
     filtered_results |-> <<>>]

(* search_similar and search_by_keywords, dict branch: title and lyrics    *)
(* from the columns, feature_summary = "".                                 *)
ColFields(cols, idx) ==
    [title           |-> ListAt(cols.titles, idx),
     feature_summary |-> <<>>,
     lyrics          |-> IF idx < Len(cols.lyrics)
                         THEN ListAt(cols.lyrics, idx) ELSE <<>>]

col_search_similar(db, order, k) ==
    LET hits == IndexSearch(order, k)
        kept == SelectSeq(hits, LAMBDA hit : hit.idx < Len(db.metadata.titles))
    IN  [i \in 1..Len(kept) |->
            [index |-> kept[i].idx, distance |-> kept[i].dist]
                @@ ColFields(db.metadata, kept[i].idx)]

RECURSIVE ColCountScores(_, _, _)
ColCountScores(db, scores, kws) ==
    IF kws = <<>> THEN scores
    ELSE LET keyword == Lower(Head(kws))
         IN  ColCountScores(db,
                            IF keyword \in DOMAIN db.keyword_index
                            THEN AddPostings(scores, db.keyword_index[keyword])
                            ELSE scores,
                            Tail(kws))

col_search_by_keywords(db, kws, k) ==
    IF kws = <<>> THEN <<>>
    ELSE LET scores == ColCountScores(db, <<>>, kws)
             top_indices == MostCommon(scores, k * 2)
             kept == SelectSeq(Take(top_indices, k),
                               LAMBDA e : e.idx < Len(db.metadata.titles))
         IN  [i \in 1..Len(kept) |->
                 [index         |-> kept[i].idx,
                  distance      |-> DistUnit \div (kept[i].n + 1),
                  keyword_score |-> kept[i].n]
                     @@ ColFields(db.metadata, kept[i].idx)]

(* Both stores are built from the same documents.                          *)
ShapeInit ==
    /\ metadata \in ShapeCorpora
    /\ ntotal = Len(metadata)
    /\ song_texts = BuildSongTexts(metadata)
    /\ keyword_index = BuildKeywordIndex(BuildSongTexts(metadata))
    /\ columns_db = ColumnsDbOf(ColumnsOf(metadata))
    /\ pc = "both_built"
    /\ search_query = <<>>
    /\ top_k = 0
    /\ categories = <<>>
    /\ use_hybrid = FALSE
    /\ faiss_order = <<>>
    /\ vector_results = <<>>
    /\ keywords = <<>>
    /\ keyword_results = <<>>
    /\ combined_results = <<>>
    /\ filtered_results = <<>>
    /\ final_results = <<>>
    /\ raised = "none"
    /\ artifact = metadata
    /\ loads = 1
    /\ disk = DiskWith(Len(metadata))
    /\ calls = [p \in Workers |-> IdleCall]
    /\ song_req = IdleSong
    /\ log_rows = <<>>
    /\ event_id_current = 0

(* The same search_similar call on both stores (the same index answer).    *)
BothSearchSimilar ==
    /\ pc = "both_built"
    /\ \E k \in 1..MaxTopK, order \in FaissOrders(ntotal) :
           /\ top_k' = k
           /\ faiss_order' = order
           /\ vector_results' = search_similar(order, k)
           /\ columns_db' =
                  [columns_db EXCEPT
                      !.vector_results = col_search_similar(columns_db, order, k)]
    /\ pc' = "both_searched"
    /\ UNCHANGED <<db_vars, calls, artifact, loads, disk, song_req, log_rows,
                   event_id_current, search_query, categories, use_hybrid,
                   keywords, keyword_results, combined_results,
                   filtered_results, final_results, raised>>

(* The same search_by_keywords call on both stores.                        *)
BothSearchByKeywords ==
    /\ pc = "both_searched"
    /\ \E q \in Queries :
           /\ search_query' = q
           /\ keywords' = ExtractKeywords(q)
           /\ keyword_results' = search_by_keywords(keywords', top_k)
           /\ columns_db' =
                  [columns_db EXCEPT
                      !.keyword_results =
                          col_search_by_keywords(columns_db, keywords', top_k)]
    /\ pc' = "both_keyword_searched"
    /\ UNCHANGED <<db_vars, calls, artifact, loads, disk, song_req, log_rows,
                   event_id_current, top_k, categories, use_hybrid, faiss_order,
                   vector_results, combined_results, filtered_results,
                   final_results, raised>>

(* The same filter_by_categories call on each store's vector candidates.   *)
BothFilter ==
    /\ pc = "both_keyword_searched"
    /\ \E c \in CategorySets :
           /\ categories' = c
           /\ filtered_results' = filter_by_categories(vector_results, c)
           /\ columns_db' =
                  [columns_db EXCEPT
                      !.filtered_results =
                          filter_by_categories(columns_db.vector_results, c)]
    /\ pc' = "both_filtered"
    /\ UNCHANGED <<db_vars, calls, artifact, loads, disk, song_req, log_rows,
                   event_id_current, search_query, top_k, use_hybrid,
                   faiss_order, vector_results, keywords, keyword_results,
                   combined_results, final_results, raised>>

ShapeNext ==
    \/ BothSearchSimilar
    \/ BothSearchByKeywords
    \/ BothFilter

SpecShape == ShapeInit /\ [][ShapeNext]_vars

(* C26: for the same documents in the two shapes the stores have the same  *)
(* document count and keyword index, and the three operations give the     *)
(* same results.                                                          *)
C26_ShapesEquivalent ==
    /\ Len(columns_db.metadata.titles) = Len(metadata)
    /\ columns_db.keyword_index = keyword_index
    /\ columns_db.vector_results = vector_results
    /\ columns_db.keyword_results = keyword_results
    /\ columns_db.filtered_results = filtered_results

-----------------------------------------------------------------------------
(* The scenarios on the three-song corpus.                                 *)

(* retrieve('dal', top_k=1, use_hybrid=True), without categories, on the   *)
(* three-song corpus has returned.                                         *)
DalScenario ==
    /\ Returned
    /\ metadata = CorpusScenario
    /\ search_query = <<"dal">>
    /\ top_k = 1
    /\ use_hybrid
    /\ categories = <<>>

(* C27 as stated: in that call the keyword search matches song 0 only and  *)
(* the list returned is [0].                                               *)
C27_Original ==
    DalScenario =>
        /\ Indices(keyword_results) = {0}
        /\ Len(final_results) = 1
        /\ final_results[1].index = 0

(* C27: in that call no keyword survives extraction (the query is a single *)
(* one-character token), no keyword search and no fusion run, and the list *)
(* returned is the one song the index answered as nearest, whichever of    *)
(* the three it is.                                                        *)
C27_DalIsNoKeyword ==
    DalScenario =>
        /\ keywords = <<>>
        /\ keyword_results = <<>>
        /\ Len(final_results) = 1
        /\ final_results[1].index = faiss_order[1].idx
        /\ \A j \in 1..Len(faiss_order) :
               final_results[1].distance <= faiss_order[j].dist
        /\ "combined_score" \notin DOMAIN final_results[1]

(* The call returned song 1, strictly nearer than song 0.                  *)
C27_Witness ==
    /\ DalScenario
    /\ final_results[1].index = 1
    /\ \E j \in 1..Len(faiss_order) :
           /\ faiss_order[j].idx = 0
           /\ final_results[1].distance < faiss_order[j].dist

(* C28: with use_hybrid false a call that returns has run no keyword       *)
(* search and no fusion; its list is the top_k nearest of the vector       *)
(* candidates that pass the category filter (all of them when the filter   *)
(* has nothing to say), in ascending distance, without keyword_score or    *)
(* combined_score; on the three-song corpus with song 2 strictly nearest,  *)
(* top_k = 2 and no categories it is song 2 and then the next nearest.     *)
C28_VectorOnly ==
    (Returned /\ ~use_hybrid) =>
        /\ keywords = <<>>
        /\ keyword_results = <<>>
        /\ combined_results = vector_results
        /\ \/ filtered_results = vector_results
           \/ filtered_results = SelectSeq(vector_results, MatchesNonBlank)
        /\ Len(final_results) = Min(top_k, Len(filtered_results))
        /\ \A i \in 1..Len(final_results) :
               /\ "keyword_score" \notin DOMAIN final_results[i]
               /\ "combined_score" \notin DOMAIN final_results[i]
               /\ \E j \in 1..Len(filtered_results) :
                      final_results[i] = filtered_results[j]
        /\ \A i, j \in 1..Len(final_results) :
               i < j => final_results[i].distance <= final_results[j].distance
        /\ \A j \in 1..Len(filtered_results) :
               \/ \E i \in 1..Len(final_results) :
                      final_results[i] = filtered_results[j]
               \/ \A i \in 1..Len(final_results) :
                      final_results[i].distance <= filtered_results[j].distance
        /\ (/\ metadata = CorpusScenario /\ top_k = 2 /\ categories = <<>>
            /\ faiss_order[1].idx = 2
            /\ faiss_order[1].dist < faiss_order[2].dist)
           => /\ Len(final_results) = 2
              /\ final_results[1].index = 2
              /\ final_results[2].index = faiss_order[2].idx
              /\ final_results[2].distance <= faiss_order[3].dist

(* The scenario: song 2 strictly nearest, top_k = 2, a keyword-bearing     *)
(* query, no hybrid search; and a filtered vector-only call.               *)
C28_Witness ==
    /\ Returned /\ ~use_hybrid
    /\ metadata = CorpusScenario /\ top_k = 2 /\ categories = <<>>
    /\ search_query = <<"no", "rae">>
    /\ faiss_order[1].idx = 2
    /\ faiss_order[1].dist < faiss_order[2].dist

C28_WitnessFiltered ==
    /\ Returned /\ ~use_hybrid
    /\ metadata = CorpusScenario /\ top_k = 2
    /\ Len(filtered_results) = 1
    /\ Len(vector_results) = 2

(* C29: the fused list and the list retrieve returns hold every document   *)
(* index at most once.                                                     *)
C29_NoIndexTwice ==
    /\ Fused =>
           \A i, j \in 1..Len(combined_results) :
               combined_results[i].index = combined_results[j].index => i = j
    /\ Returned =>
           \A i, j \in 1..Len(final_results) :
               final_results[i].index = final_results[j].index => i = j

-----------------------------------------------------------------------------
(* POST /generate-song and the generation log.                             *)
(* The handler is a coroutine without an await: the server runs one        *)
(* request to its end before it starts the next.  song_req is the request  *)
(* being served (its number, the handler's position, the HTTP status it    *)
(* ended with), log_rows the rows appended to the log file, in order, and  *)
(* event_id_current the counter of the process-wide EventIdGenerator.      *)

MaxRequests == 3

(* log_generation_event: the next event id, and one row appended.          *)
LogGenerationEvent(success) ==
    /\ event_id_current' = event_id_current + 1
    /\ log_rows' = Append(log_rows,
                          [event_id |-> event_id_current', request |-> song_req.request,
                           success |-> IF success THEN 1 ELSE 0])

SongInit ==
    /\ artifact = CorpusEmpty
    /\ disk = DiskWith(0)
    /\ loads = 0
    /\ metadata = <<>>
    /\ ntotal = 0
    /\ song_texts = <<>>
    /\ keyword_index = <<>>
    /\ pc = "idle"
    /\ search_query = <<>>
    /\ top_k = 0
    /\ categories = <<>>
    /\ use_hybrid = FALSE
    /\ faiss_order = <<>>
    /\ vector_results = <<>>
    /\ keywords = <<>>
    /\ keyword_results = <<>>
    /\ combined_results = <<>>
    /\ filtered_results = <<>>
    /\ final_results = <<>>
    /\ raised = "none"
    /\ EnvAtRest

(* A request arrives.                                                      *)
SongRequest ==
    /\ song_req.pc = "idle"
    /\ song_req.request < MaxRequests
    /\ song_req' = [pc |-> "key", request |-> song_req.request + 1, outcome |-> "none"]
    /\ UNCHANGED <<db_vars, call_vars, calls, artifact, loads, disk, columns_db,
                   log_rows, event_id_current>>

(* No SUNO_API_KEY: 500 before the try block, nothing logged.              *)
SongNoKey ==
    /\ song_req.pc = "key"
    /\ song_req' = [song_req EXCEPT !.pc = "idle", !.outcome = "500"]
    /\ UNCHANGED <<db_vars, call_vars, calls, artifact, loads, disk, columns_db,
                   log_rows, event_id_current>>

(* The key is set: the handler enters the try block.                       *)
SongEnterTry ==
    /\ song_req.pc = "key"
    /\ song_req' = [song_req EXCEPT !.pc = "pipeline"]
    /\ UNCHANGED <<db_vars, call_vars, calls, artifact, loads, disk, columns_db,
                   log_rows, event_id_current>>

(* No lyrics could be found or generated: HTTPException(400), re-raised by *)
(* `except HTTPException: raise`, nothing logged.                          *)
SongNoLyrics ==
    /\ song_req.pc = "pipeline"
    /\ song_req' = [song_req EXCEPT !.pc = "idle", !.outcome = "400"]
    /\ UNCHANGED <<db_vars, call_vars, calls, artifact, loads, disk, columns_db,
                   log_rows, event_id_current>>

(* The lyrics lookup, build_suno_request, request_suno_song or the         *)
(* extraction of the audio URLs raises: `except Exception` logs a failure  *)
(* row and answers 500.                                                    *)
SongPipelineFails ==
    /\ song_req.pc = "pipeline"
    /\ LogGenerationEvent(FALSE)
    /\ song_req' = [song_req EXCEPT !.pc = "idle", !.outcome = "500"]
    /\ UNCHANGED <<db_vars, call_vars, calls, artifact, loads, disk, columns_db>>

(* request_suno_song returned and the audio URLs were extracted: the       *)
(* success row is logged, inside the try block, before the response is     *)
(* built.                                                                  *)
SongLogSuccess ==
    /\ song_req.pc = "pipeline"
    /\ LogGenerationEvent(TRUE)
    /\ song_req' = [song_req EXCEPT !.pc = "respond"]
    /\ UNCHANGED <<db_vars, call_vars, calls, artifact, loads, disk, columns_db>>

(* GenerateSongResponse is built from the Suno result and returned: 200.   *)
SongRespond ==
    /\ song_req.pc = "respond"
    /\ song_req' = [song_req EXCEPT !.pc = "idle", !.outcome = "200"]
    /\ UNCHANGED <<db_vars, call_vars, calls, artifact, loads, disk, columns_db,
                   log_rows, event_id_current>>

(* Building the response raises (result.get on a result that is no dict, a *)
(* status or task id the response model rejects): the exception is caught  *)
(* by the same `except Exception`, which logs a failure row and answers    *)
(* 500.                                                                    *)
SongRespondFails ==
    /\ song_req.pc = "respond"
    /\ LogGenerationEvent(FALSE)
    /\ song_req' = [song_req EXCEPT !.pc = "idle", !.outcome = "500"]
    /\ UNCHANGED <<db_vars, call_vars, calls, artifact, loads, disk, columns_db>>

SongNext ==
    \/ SongRequest
    \/ SongNoKey
    \/ SongEnterTry
    \/ SongNoLyrics
    \/ SongPipelineFails
    \/ SongLogSuccess
    \/ SongRespond
    \/ SongRespondFails

SpecSong == SongInit /\ [][SongNext]_vars

(* The rows the request being served has appended.                         *)
RowsOfRequest ==
    { i \in 1..Len(log_rows) : log_rows[i].request = song_req.request }

(* C30: a request appends at most one row; once it has ended, a success=1  *)
(* row of it means it ended with 200 and a success=0 row that it ended     *)
(* with 500; it never has a row of each kind; the event ids of the rows    *)
(* are pairwise distinct.                                                  *)
C30_OneRowPerRequest ==
    /\ Cardinality(RowsOfRequest) <= 1
    /\ \A i \in RowsOfRequest :
           /\ (log_rows[i].success = 1 /\ song_req.pc = "idle")
                  => song_req.outcome = "200"
           /\ log_rows[i].success = 0 => song_req.outcome = "500"
    /\ \A i, j \in RowsOfRequest :
           log_rows[i].success = log_rows[j].success
    /\ \A i, j \in 1..Len(log_rows) :
           log_rows[i].event_id = log_rows[j].event_id => i = j

=============================================================================
